---- MODULE Spec2Model ----
(***************************************************************************)
(* Reindeer Maze (day16/main.py): the maze loader, the two hard-coded      *)
(* position finders, min_cost_to_end and count_best_path_tiles, as a state *)
(* machine.  One run loads one input file, calls min_cost_to_end on the    *)
(* maze and then count_best_path_tiles on the same maze object, in the     *)
(* order main() calls them.  An error raised by a search ends that call    *)
(* only (the caller of the model catches it), so that each function is     *)
(* observed on every maze.                                                 *)
(*                                                                         *)
(* Positions are 0-indexed records [x, y] as in the source; TLA+ sequences *)
(* are 1-indexed, so the list access maze[y][x] is the operator CellAt.    *)
(***************************************************************************)
EXTENDS Integers, Sequences, FiniteSets, TLC

VARIABLES
    lines,                \* the input file: a sequence of lines, each a sequence of characters
    maze,                 \* Maze = list[list[Cell]]; rows may later hold the string "O"
    load_result,          \* "none" | "ok" | "ValueError" (read_maze)
    start_direction,      \* argument of both searches
    move_cost,            \* argument of both searches
    turn_cost,            \* argument of both searches
    pc,                   \* position of the caller / of the running search
    start_position,       \* local of the running search
    end_position,         \* local of the running search
    queue,                \* the heap of the running search, as a set of entries
    counter,              \* the closure variable of create_counter
    visited,              \* min_cost_to_end: set of positions
    min_cost_to_position, \* count_best_path_tiles: dict Position -> cost
    nodes,                \* count_best_path_tiles: the expanded nodes, reachable by back-pointers
    best_paths,           \* count_best_path_tiles: list of accepted end nodes
    best_path_positions,  \* count_best_path_tiles: set of positions collected from the chains
    min_result,           \* outcome of min_cost_to_end
    count_result,         \* outcome of count_best_path_tiles
    popped,               \* history: the (position, direction) states min_cost_to_end has popped
    harness               \* the caller that makes two invocations on one maze object

\* the state of day16/main.py
vars16 == <<lines, maze, load_result, start_direction, move_cost, turn_cost, pc,
            start_position, end_position, queue, counter, visited, min_cost_to_position, nodes, best_paths,
            best_path_positions, min_result, count_result, popped, harness>>

VARIABLES
    warehouse,            \* day15: the Grid the caller passes to simulate_robot_movements
    new_layout,           \* day15: local of simulate_robot_movements
    robot_position,       \* day15: local of simulate_robot_movements
    moves,                \* day15: how many moves the loop has yet to take (each is drawn when taken)
    simulation            \* day15: "off" | "called" | "loop" | "returned" | "ValueError"

\* the state of day15/main.py
vars15 == <<warehouse, new_layout, robot_position, moves, simulation>>

VARIABLES
    area_map,             \* day6: the Map
    current_step,         \* day6: the Step the outer generate_route has yielded last
    previous_steps,       \* day6: local of count_obstruction_positions_v2
    loop_positions,       \* day6: local of count_obstruction_positions_v2
    patrol                \* day6: "off" | "called" | "loop" | the outcome of the count

\* the state of day6/main.py
vars6 == <<area_map, current_step, previous_steps, loop_positions, patrol>>

VARIABLES
    byte_positions,       \* day18: the byte positions in drop order
    memory_space,         \* day18: the MemorySpace passed to find_blocking_byte_position
    swept,                \* day18: the set `visited` of find_blocking_byte_position
    candidates,           \* day18: the candidates the loop has yet to take, in its order
    blocking              \* day18: "off" | "loop" | the outcome of find_blocking_byte_position

\* the state of day18/main.py
vars18 == <<byte_positions, memory_space, swept, candidates, blocking>>

\* what the steps of day16/main.py leave alone
other_days == <<vars15, vars6, vars18>>

vars == <<vars16, vars15, vars6, vars18>>

-----------------------------------------------------------------------------
(* Bounds of the model.                                                    *)

\* most inner cells, other than the cells of S and E, of a maze of the systematic family
MaxFree == 6
\* largest sequence number a search may hand out before the model stops it
MaxSeq == 100
\* the input family of the loader specification
MaxLines == 2
MaxLineLen == 2
MaxInner == 4

-----------------------------------------------------------------------------
(* Cell, Direction, Position.                                              *)

START == "START"
END == "END"
EMPTY == "EMPTY"
WALL == "WALL"

\* Cell.<member>.value
CellValue(cell) ==
    CASE cell = START -> "S"
      [] cell = END   -> "E"
      [] cell = EMPTY -> "."
      [] cell = WALL  -> "#"

Direction == {"NORTH", "EAST", "SOUTH", "WEST"}

\* Direction.<member>.value
DirectionValue(d) ==
    CASE d = "NORTH" -> [dx |-> 0,  dy |-> -1]
      [] d = "EAST"  -> [dx |-> 1,  dy |-> 0]
      [] d = "SOUTH" -> [dx |-> 0,  dy |-> 1]
      [] d = "WEST"  -> [dx |-> -1, dy |-> 0]

Position(px, py) == [x |-> px, y |-> py]

advance(d, position) ==
    Position(position.x + DirectionValue(d).dx, position.y + DirectionValue(d).dy)

turn_clockwise(d) ==
    CASE d = "NORTH" -> "EAST"
      [] d = "EAST"  -> "SOUTH"
      [] d = "SOUTH" -> "WEST"
      [] d = "WEST"  -> "NORTH"

\* mutant of turn_counter_clockwise: SOUTH and WEST turn clockwise
turn_counter_clockwise_in_part(d) ==
    CASE d = "NORTH" -> "WEST"
      [] d = "EAST"  -> "NORTH"
      [] d = "SOUTH" -> "WEST"
      [] d = "WEST"  -> "NORTH"

turn_counter_clockwise(d) ==
    CASE d = "NORTH" -> "WEST"
      [] d = "EAST"  -> "NORTH"
      [] d = "SOUTH" -> "EAST"
      [] d = "WEST"  -> "SOUTH"

DEFAULT_STARTING_DIRECTION == "EAST"
DEFAULT_MOVE_COST == 1
DEFAULT_TURN_COST == 1000
\* the sentinel stored for the end position in min_cost_to_position
SENTINEL_COST == 999999999

-----------------------------------------------------------------------------
(* read_maze.                                                              *)

Whitespace == {" "}
CellChars == {"S", "E", ".", "#"}

RECURSIVE LStrip(_)
LStrip(s) == IF s # <<>> /\ Head(s) \in Whitespace THEN LStrip(Tail(s)) ELSE s

RECURSIVE RStrip(_)
RStrip(s) ==
    IF s # <<>> /\ s[Len(s)] \in Whitespace THEN RStrip(SubSeq(s, 1, Len(s) - 1)) ELSE s

\* str.strip()
Strip(s) == RStrip(LStrip(s))

\* interpret_char_as_cell raises ValueError exactly on these characters
UnknownChar(char) == char \notin CellChars

interpret_char_as_cell(char) ==
    CASE char = "S" -> START
      [] char = "E" -> END
      [] char = "." -> EMPTY
      [] char = "#" -> WALL

\* the row built from one line of the file
ParseLine(line) == [i \in 1..Len(Strip(line)) |-> interpret_char_as_cell(Strip(line)[i])]

ReadRaises(ls) == \E i \in 1..Len(ls) : \E j \in 1..Len(Strip(ls[i])) : UnknownChar(Strip(ls[i])[j])

read_maze(ls) == [i \in 1..Len(ls) |-> ParseLine(ls[i])]

-----------------------------------------------------------------------------
(* List access and the position finders.                                   *)

\* Python's list index: valid for -len <= i < len, a negative index counts from the end
IndexOk(list, i) == -Len(list) <= i /\ i < Len(list)
At(list, i) == IF i >= 0 THEN list[i + 1] ELSE list[Len(list) + i + 1]

\* maze[position.y][position.x] raises IndexError
CellRaises(mz, position) ==
    \/ ~IndexOk(mz, position.y)
    \/ ~IndexOk(At(mz, position.y), position.x)

\* maze[position.y][position.x]
CellAt(mz, position) == At(At(mz, position.y), position.x)

find_start_position(mz) == Position(1, Len(mz) - 2)

\* len(maze[0]) raises IndexError on an empty maze
FindEndRaises(mz) == Len(mz) = 0

find_end_position(mz) == Position(Len(mz[1]) - 2, 1)

is_within_bounds(mz, position) ==
    /\ 0 <= position.x /\ position.x < Len(mz[1])
    /\ 0 <= position.y /\ position.y < Len(mz)

-----------------------------------------------------------------------------
(* The heap and the step costs.                                            *)

\* mutant of EntryLess: entries compare by sequence number alone
EntryLessBySeq(a, b) == a.seq < b.seq

\* tuples compare by (cost, sequence number); sequence numbers are unique
EntryLess(a, b) == a.cost < b.cost \/ (a.cost = b.cost /\ a.seq < b.seq)

\* mutant of HeapMin: the entry that compares greatest is popped
HeapMax(q) == CHOOSE e \in q : \A f \in q : f = e \/ EntryLess(f, e)

\* heappop
HeapMin(q) == CHOOSE e \in q : \A f \in q : f = e \/ EntryLess(e, f)

move_forward_cost(cost, mc) == cost + mc

\* mutant of move_side_cost: the turn is not charged
move_side_cost_without_turn(cost, mc, tc) == move_forward_cost(cost, mc)

move_side_cost(cost, mc, tc) == tc + move_forward_cost(cost, mc)

\* mutant of Successors: a turn is made in place, without the step that follows it
SuccessorsTurningInPlace(cost, position, direction, mc, tc, next) ==
    { [cost      |-> move_side_cost(cost, mc, tc),
       seq       |-> next,
       position  |-> position,
       direction |-> turn_counter_clockwise(direction)],
      [cost      |-> move_forward_cost(cost, mc),
       seq       |-> next + 1,
       position  |-> advance(direction, position),
       direction |-> direction],
      [cost      |-> move_side_cost(cost, mc, tc),
       seq       |-> next + 2,
       position  |-> position,
       direction |-> turn_clockwise(direction)] }

\* mutant of Successors: the right turn is a half turn
SuccessorsTurningBack(cost, position, direction, mc, tc, next) ==
    { [cost      |-> move_side_cost(cost, mc, tc),
       seq       |-> next,
       position  |-> advance(turn_counter_clockwise(direction), position),
       direction |-> turn_counter_clockwise(direction)],
      [cost      |-> move_forward_cost(cost, mc),
       seq       |-> next + 1,
       position  |-> advance(direction, position),
       direction |-> direction],
      [cost      |-> move_side_cost(cost, mc, tc),
       seq       |-> next + 2,
       position  |-> advance(turn_clockwise(turn_clockwise(direction)), position),
       direction |-> turn_clockwise(turn_clockwise(direction))] }

\* the three successors of a popped entry, numbered in the order count() is called
Successors(cost, position, direction, mc, tc, next) ==
    { [cost      |-> move_side_cost(cost, mc, tc),
       seq       |-> next,
       position  |-> advance(turn_counter_clockwise(direction), position),
       direction |-> turn_counter_clockwise(direction)],
      [cost      |-> move_forward_cost(cost, mc),
       seq       |-> next + 1,
       position  |-> advance(direction, position),
       direction |-> direction],
      [cost      |-> move_side_cost(cost, mc, tc),
       seq       |-> next + 2,
       position  |-> advance(turn_clockwise(direction), position),
       direction |-> turn_clockwise(direction)] }

NoResult == [kind |-> "none", value |-> 0]
Returned(v) == [kind |-> "return", value |-> v]
Raised(e) == [kind |-> e, value |-> 0]

-----------------------------------------------------------------------------
(* read_maze, called by main on the input file.                            *)

ReadMaze ==
    /\ UNCHANGED other_days
    /\ pc = "read"
    /\ IF ReadRaises(lines)
       THEN /\ load_result' = "ValueError"
            /\ pc' = "halt"
            /\ maze' = maze
       ELSE /\ load_result' = "ok"
            /\ pc' = "min_start"
            /\ maze' = read_maze(lines)
    /\ UNCHANGED <<lines, start_direction, move_cost, turn_cost, start_position,
                   end_position, queue, counter, visited, min_cost_to_position, nodes, best_paths, best_path_positions,
                   min_result, count_result, popped, harness>>

-----------------------------------------------------------------------------
(* min_cost_to_end.                                                        *)

\* lines 164-172: the positions, the counter, the queue and the visited set
MinStart ==
    /\ UNCHANGED other_days
    /\ pc = "min_start"
    /\ start_position' = find_start_position(maze)
    /\ IF FindEndRaises(maze)
       THEN /\ min_result' = Raised("IndexError")
            /\ pc' = "count_start"
            /\ UNCHANGED <<end_position, queue, counter, visited, popped>>
       ELSE /\ end_position' = find_end_position(maze)
            /\ queue' = { [cost |-> 0, seq |-> 0,
                            position |-> find_start_position(maze),
                            direction |-> start_direction] }
            /\ counter' = 0
            /\ visited' = {}
            /\ popped' = {}
            /\ pc' = "min"
            /\ UNCHANGED min_result
    /\ UNCHANGED <<lines, maze, load_result, start_direction, move_cost, turn_cost,
                   min_cost_to_position, nodes, best_paths, best_path_positions,
                   count_result, harness>>

\* mutant of MinOutcome: the test for a WALL cell is left out
MinOutcomeWithoutWallTest(e) ==
    IF e.position = end_position THEN "return"
    ELSE IF e.position \in visited THEN "skip"
    ELSE IF CellRaises(maze, e.position) THEN "IndexError"
    ELSE "expand"

\* what one pass of the loop of lines 174-219 does with the popped entry
MinOutcome(e) ==
    IF e.position = end_position THEN "return"
    ELSE IF e.position \in visited THEN "skip"
    ELSE IF CellRaises(maze, e.position) THEN "IndexError"
    ELSE IF CellAt(maze, e.position) = WALL THEN "wall"
    ELSE "expand"

\* one test of `while queue` and, when it holds, one pass of the loop body
MinStep ==
    /\ UNCHANGED other_days
    /\ pc = "min"
    /\ counter + 3 <= MaxSeq      \* bound of the model, not of the code
    /\ IF queue = {}
       THEN /\ min_result' = Raised("ValueError")
            /\ pc' = "count_start"
            /\ UNCHANGED <<queue, counter, visited, popped>>
       ELSE LET e == HeapMin(queue)
                rest == queue \ {e}
                out == MinOutcome(e)
            IN  /\ queue' = IF out = "expand"
                            THEN rest \cup Successors(e.cost, e.position, e.direction,
                                                      move_cost, turn_cost, counter + 1)
                            ELSE rest
                /\ counter' = IF out = "expand" THEN counter + 3 ELSE counter
                /\ visited' = IF out \in {"IndexError", "wall", "expand"}
                              THEN visited \cup {e.position}
                              ELSE visited
                /\ min_result' = CASE out = "return" -> Returned(e.cost)
                                   [] out = "IndexError" -> Raised("IndexError")
                                   [] OTHER -> min_result
                /\ pc' = IF out \in {"return", "IndexError"} THEN "count_start" ELSE "min"
                /\ popped' = popped \cup {[position |-> e.position, direction |-> e.direction]}
    /\ UNCHANGED <<lines, maze, load_result, start_direction, move_cost, turn_cost,
                   start_position, end_position, min_cost_to_position, nodes,
                   best_paths, best_path_positions, count_result, harness>>

-----------------------------------------------------------------------------
(* count_best_path_tiles.                                                  *)

\* the predecessor field of the start node
None == -1

\* lines 230-244
CountStart ==
    /\ UNCHANGED other_days
    /\ pc = "count_start"
    /\ start_position' = find_start_position(maze)
    /\ IF FindEndRaises(maze)
       THEN /\ count_result' = Raised("IndexError")
            /\ pc' = "done"
            /\ UNCHANGED <<end_position, queue, counter, min_cost_to_position, nodes,
                           best_paths>>
       ELSE /\ end_position' = find_end_position(maze)
            /\ queue' = { [cost |-> 0, seq |-> 0,
                            position |-> find_start_position(maze),
                            direction |-> start_direction,
                            previous |-> None] }
            /\ counter' = 0
            /\ min_cost_to_position' = [p \in {find_end_position(maze)} |-> SENTINEL_COST]
            /\ nodes' = {}
            /\ best_paths' = <<>>
            /\ pc' = "count"
            /\ UNCHANGED count_result
    /\ UNCHANGED <<lines, maze, load_result, start_direction, move_cost, turn_cost,
                   visited, best_path_positions, min_result, popped, harness>>

\* mutant of CountOutcome: the test against the cost recorded for the end position
\* is left out
CountOutcomeWithoutBestTest(node) ==
    IF CellRaises(maze, node.position) THEN "IndexError"
    ELSE IF CellAt(maze, node.position) = WALL THEN "wall"
    ELSE IF /\ node.position \in DOMAIN min_cost_to_position
            /\ node.cost > min_cost_to_position[node.position] THEN "over_position"
    ELSE IF node.position = end_position THEN "accept_end"
    ELSE "expand"

\* what one pass of the loop of lines 279-331 does with the popped node
CountOutcome(node) ==
    IF CellRaises(maze, node.position) THEN "IndexError"
    ELSE IF CellAt(maze, node.position) = WALL THEN "wall"
    ELSE IF node.cost > min_cost_to_position[end_position] THEN "over_best"
    ELSE IF /\ node.position \in DOMAIN min_cost_to_position
            /\ node.cost > min_cost_to_position[node.position] THEN "over_position"
    ELSE IF node.position = end_position THEN "accept_end"
    ELSE "expand"

\* min_cost_to_position[position] = cost
DictPut(dict, key, value) ==
    [k \in DOMAIN dict \cup {key} |-> IF k = key THEN value ELSE dict[k]]

\* mutant of CountSuccessors: each successor holds the node's predecessor, not the
\* node, as its predecessor
CountSuccessorsSkippingNode(node, mc, tc, next) ==
    { [cost |-> s.cost, seq |-> s.seq, position |-> s.position,
       direction |-> s.direction, previous |-> node.previous] :
      s \in Successors(node.cost, node.position, node.direction, mc, tc, next) }

\* the successors of a node, each holding the node as its predecessor
CountSuccessors(node, mc, tc, next) ==
    { [cost |-> s.cost, seq |-> s.seq, position |-> s.position,
       direction |-> s.direction, previous |-> node.seq] :
      s \in Successors(node.cost, node.position, node.direction, mc, tc, next) }

\* lines 337-341: the positions on the chain of predecessors of a node
RECURSIVE ChainPositions(_, _)
ChainPositions(node, table) ==
    {node.position} \cup
        IF node.previous = None THEN {}
        ELSE ChainPositions(CHOOSE n \in table : n.seq = node.previous, table)

\* lines 335-341
CollectPositions(paths, table) ==
    UNION { ChainPositions(paths[i], table) : i \in 1..Len(paths) }

\* lines 343-347: display_maze = maze.copy() copies the outer list only, so the
\* assignment display_maze[y][x] = "O" writes into the rows of maze
MarkMaze(mz, positions) ==
    [r \in 1..Len(mz) |->
        [c \in 1..Len(mz[r]) |->
            IF Position(c - 1, r - 1) \in positions THEN "O" ELSE mz[r][c]]]

\* one test of `while queue` and one pass of the loop body, or, when the queue is
\* empty, lines 333-351
CountStep ==
    /\ UNCHANGED other_days
    /\ pc = "count"
    /\ counter + 3 <= MaxSeq      \* bound of the model, not of the code
    /\ IF queue = {}
       THEN LET positions == CollectPositions(best_paths, nodes)
            IN  /\ best_path_positions' = positions
                /\ maze' = MarkMaze(maze, positions)
                /\ count_result' = Returned(Cardinality(positions))
                /\ pc' = "done"
                /\ UNCHANGED <<queue, counter, min_cost_to_position, nodes, best_paths>>
       ELSE LET node == HeapMin(queue)
                rest == queue \ {node}
                out == CountOutcome(node)
            IN  /\ queue' = IF out = "expand"
                            THEN rest \cup CountSuccessors(node, move_cost, turn_cost,
                                                           counter + 1)
                            ELSE rest
                /\ counter' = IF out = "expand" THEN counter + 3 ELSE counter
                /\ min_cost_to_position' =
                       IF out \in {"accept_end", "expand"}
                       THEN DictPut(min_cost_to_position, node.position, node.cost)
                       ELSE min_cost_to_position
                /\ nodes' = IF out = "expand" THEN nodes \cup {node} ELSE nodes
                /\ best_paths' = IF out = "accept_end" THEN Append(best_paths, node)
                                 ELSE best_paths
                /\ count_result' = IF out = "IndexError" THEN Raised("IndexError")
                                   ELSE count_result
                /\ pc' = IF out = "IndexError" THEN "done" ELSE "count"
                /\ UNCHANGED <<maze, best_path_positions>>
    /\ UNCHANGED <<lines, load_result, start_direction, move_cost, turn_cost,
                   start_position, end_position, visited, min_result, popped, harness>>

-----------------------------------------------------------------------------
(* The input families and the specifications.                              *)

\* the text of a wall-bordered maze: S at (1, h - 2), E at (w - 2, 1), walls at `walls`
MazeText(w, h, walls) ==
    [r \in 1..h |->
        [c \in 1..w |->
            IF c = 1 \/ c = w \/ r = 1 \/ r = h THEN "#"
            ELSE IF c - 1 = 1 /\ r - 1 = h - 2 THEN "S"
            ELSE IF c - 1 = w - 2 /\ r - 1 = 1 THEN "E"
            ELSE IF Position(c - 1, r - 1) \in walls THEN "#"
            ELSE "."]]

\* the inner cells other than the cells of S and E
FreeCells(w, h) ==
    { Position(c, r) : c \in 1..(w - 2), r \in 1..(h - 2) }
        \ { Position(1, h - 2), Position(w - 2, 1) }

\* every wall-bordered maze with at most MaxFree free cells
SmallMazes ==
    UNION { { MazeText(d[1], d[2], walls) : walls \in SUBSET FreeCells(d[1], d[2]) } :
            d \in { e \in (4..(MaxFree + 4)) \X (4..(MaxFree + 4)) :
                       (e[1] - 2) * (e[2] - 2) - 2 <= MaxFree } }

\* a 6 x 6 maze whose only route from S, facing south, to E runs around a loop
\* and back through the cell of S:
\*     ######
\*     #...E#
\*     #..###
\*     #.#..#
\*     #S...#
\*     ######
LoopMaze == MazeText(6, 6, {Position(3, 2), Position(4, 2), Position(2, 3)})

\* a 7 x 7 maze in which routes with different numbers of turns meet at a junction:
\*     #######
\*     #....E#
\*     ##...##
\*     #..#..#
\*     #.#.#.#
\*     #S....#
\*     #######
JunctionMaze ==
    MazeText(7, 7, {Position(1, 2), Position(5, 2), Position(3, 3), Position(2, 4),
                    Position(4, 4)})

\* a 9 x 9 maze with two least-cost routes that share only S and E when the
\* search starts facing north and a turn costs four moves: one of five turns up the
\* left and along the top, one of six turns along the bottom and up the right:
\*     #########
\*     #......E#
\*     #.#####.#
\*     #....##.#
\*     ####.##.#
\*     #....##.#
\*     #.#...#.#
\*     #S..#...#
\*     #########
TwoRouteMaze ==
    MazeText(9, 9, { Position(c, 2) : c \in 2..6 }
                     \cup { Position(c, r) : c \in 5..6, r \in 3..5 }
                     \cup { Position(c, 4) : c \in 1..3 }
                     \cup { Position(2, 6), Position(6, 6), Position(4, 7) })

MazeFiles == SmallMazes \cup {LoopMaze, JunctionMaze, TwoRouteMaze}

\* the files of the loader specification: up to MaxLines lines of up to MaxLineLen
\* characters, among them an unknown character and a blank
FileChars == CellChars \cup {"x", " "}

FileLines == UNION { [1..n -> FileChars] : n \in 0..MaxLineLen }

\* the text of a wall-bordered room whose inner cells are given by `inner`
RoomText(w, h, inner) ==
    [r \in 1..h |->
        [c \in 1..w |->
            IF c = 1 \/ c = w \/ r = 1 \/ r = h THEN "#" ELSE inner[<<c - 1, r - 1>>]]]

\* every wall-bordered room of at most MaxInner inner cells, each inner cell any of
\* S, E, '.', '#': S and E may be anywhere, missing or repeated
MarkedRooms ==
    UNION { { RoomText(d[1], d[2], inner) :
              inner \in [(1..(d[1] - 2)) \X (1..(d[2] - 2)) -> CellChars] } :
            d \in { e \in (3..(MaxInner + 2)) \X (3..(MaxInner + 2)) :
                       (e[1] - 2) * (e[2] - 2) <= MaxInner } }

AnyFiles == MarkedRooms \cup UNION { [1..n -> FileLines] : n \in 0..MaxLines }

CostModels == { <<0, 0>>, <<0, 1>>, <<1, 0>>, <<1, 1>>, <<1, 3>>, <<1, 4>>,
                <<DEFAULT_MOVE_COST, DEFAULT_TURN_COST>> }

\* a local that no assignment has bound yet
Unbound == Position(0, 0)

\* the caller of main(): one invocation after the other, no second caller
NoHarness == [phase |-> "single"]

\* main() of day15, day6 or day18 is not run
Off15 ==
    /\ warehouse = <<>>
    /\ new_layout = <<>>
    /\ robot_position = Unbound
    /\ moves = 0
    /\ simulation = "off"

Off6 ==
    /\ area_map = <<>>
    /\ current_step = [position |-> Unbound, direction |-> "North"]
    /\ previous_steps = {}
    /\ loop_positions = {}
    /\ patrol = "off"

Off18 ==
    /\ byte_positions = <<>>
    /\ memory_space = <<>>
    /\ swept = {}
    /\ candidates = <<>>
    /\ blocking = "off"

InitWith(files, directions, costs) ==
    /\ lines \in files
    /\ maze = <<>>
    /\ load_result = "none"
    /\ start_direction \in directions
    /\ \E c \in costs : move_cost = c[1] /\ turn_cost = c[2]
    /\ pc = "read"
    /\ start_position = Unbound
    /\ end_position = Unbound
    /\ queue = {}
    /\ counter = -1
    /\ visited = {}
    /\ min_cost_to_position = <<>>
    /\ nodes = {}
    /\ best_paths = <<>>
    /\ best_path_positions = {}
    /\ min_result = NoResult
    /\ count_result = NoResult
    /\ popped = {}
    /\ harness = NoHarness
    /\ Off15 /\ Off6 /\ Off18

Init == InitWith(MazeFiles, Direction, CostModels)

Next == ReadMaze \/ MinStart \/ MinStep \/ CountStart \/ CountStep

Spec == Init /\ [][Next]_vars

\* the loader specification: any small file, the default cost model
InitLoad ==
    InitWith(AnyFiles, Direction, {<<DEFAULT_MOVE_COST, DEFAULT_TURN_COST>>})

SpecLoad == InitLoad /\ [][Next]_vars

-----------------------------------------------------------------------------
(* The movement rules read off the input text, independently of the two    *)
(* searches: the yardstick for the claims about minimum cost.              *)

TextHeight == Len(lines)
TextWidth == Len(lines[1])

TextChar(position) == lines[position.y + 1][position.x + 1]

TextPositions == { Position(c, r) : c \in 0..(TextWidth - 1), r \in 0..(TextHeight - 1) }

\* the cells marked S and E (one of each in a maze of MazeFiles)
StartCell == CHOOSE p \in TextPositions : TextChar(p) = "S"
EndCell == CHOOSE p \in TextPositions : TextChar(p) = "E"

Enterable(position) == position \in TextPositions /\ TextChar(position) # "#"

State(position, direction) == [position |-> position, direction |-> direction]

\* the steps out of a state: turn left and step, step forward, turn right and step
Steps(s) ==
    { [to   |-> State(advance(d, s.position), d),
       cost |-> move_cost + IF d = s.direction THEN 0 ELSE turn_cost] :
      d \in { e \in {turn_counter_clockwise(s.direction), s.direction,
                     turn_clockwise(s.direction)} : Enterable(advance(e, s.position)) } }

\* least cost from the start state to every state a route reaches; a route ends
\* when it enters the cell of E
RECURSIVE LeastCosts(_, _)
LeastCosts(dist, settled) ==
    LET open == DOMAIN dist \ settled
    IN  IF open = {} THEN dist
        ELSE LET s == CHOOSE u \in open : \A v \in open : dist[u] <= dist[v]
                 better == IF s.position = EndCell THEN {}
                           ELSE { t \in Steps(s) :
                                    \/ t.to \notin DOMAIN dist
                                    \/ dist[t.to] > dist[s] + t.cost }
                 moved == { t.to : t \in better }
             IN  LeastCosts(
                     [u \in DOMAIN dist \cup moved |->
                         IF u \in moved
                         THEN dist[s] + (CHOOSE t \in better : t.to = u).cost
                         ELSE dist[u]],
                     settled \cup {s})

RouteCosts == LeastCosts([s \in {State(StartCell, start_direction)} |-> 0], {})

EndStates(dist) == { s \in DOMAIN dist : s.position = EndCell }

EndReachable == EndStates(RouteCosts) # {}

LeastOf(dist, states) == CHOOSE c \in { dist[s] : s \in states } :
                             \A s \in states : c <= dist[s]

\* the least total cost of a route from the start state to the cell of E
MinimumCost == LeastOf(RouteCosts, EndStates(RouteCosts))

\* the states from which a step of a least-cost route leads to s
TightBefore(dist, s) ==
    { u \in DOMAIN dist :
        /\ u.position # EndCell
        /\ \E t \in Steps(u) : t.to = s /\ dist[u] + t.cost = dist[s] }

RECURSIVE TightClosure(_, _, _)
TightClosure(dist, frontier, seen) ==
    IF frontier = {} THEN seen
    ELSE LET more == (UNION { TightBefore(dist, s) : s \in frontier }) \ seen
         IN  TightClosure(dist, more, seen \cup more)

\* the positions on the union of all least-cost routes from the start state to E
BestRoutePositions(dist) ==
    LET ends == { s \in EndStates(dist) : dist[s] = LeastOf(dist, EndStates(dist)) }
    IN  { s.position : s \in TightClosure(dist, ends, ends) }

MinReturnedNow == pc = "count_start"
CountReturnedNow == pc = "done" /\ count_result.kind = "return"

-----------------------------------------------------------------------------
(* Claims.                                                                 *)

\* C1: whenever E is reachable, the value min_cost_to_end returns is the least total
\* cost of a route from the start state to E.
C1_MinCostIsMinimum ==
    (MinReturnedNow /\ min_result.kind = "return" /\ EndReachable)
        => min_result.value = MinimumCost

\* C2: every position count_best_path_tiles collects lies on a route from S to E of
\* least total cost.
C2_CollectedPositionsAreOnBestRoutes ==
    CountReturnedNow => best_path_positions \subseteq
                            (IF EndReachable THEN BestRoutePositions(RouteCosts) ELSE {})

\* C3: when E is reachable, every position on a least-cost route is collected, and
\* the count returned is the number of positions on the union of those routes.
C3_AllBestRoutePositionsCollected ==
    (CountReturnedNow /\ EndReachable)
        => /\ BestRoutePositions(RouteCosts) \subseteq best_path_positions
           /\ count_result.value = Cardinality(BestRoutePositions(RouteCosts))

\* C4: when E cannot be reached, min_cost_to_end raises the no-path ValueError and
\* returns no cost; the error is raised with the frontier exhausted.
C4_NoPathRaises ==
    MinReturnedNow =>
        /\ ~EndReachable => min_result = Raised("ValueError")
        /\ min_result.kind = "ValueError" => queue = {}

\* C4 witness: E is walled off on every side, the search has expanded cells and has
\* raised
C4_Witness ==
    /\ MinReturnedNow
    /\ \A d \in Direction : ~Enterable(advance(d, EndCell))
    /\ Enterable(advance("EAST", StartCell))
    /\ counter >= 6
    /\ min_result = Raised("ValueError")

\* C5: when E cannot be reached, count_best_path_tiles raises a no-path error and
\* returns nothing.
C5_CountRaisesWhenNoPath ==
    (pc = "done" /\ ~EndReachable) => count_result.kind = "ValueError"

\* C6: when a route from S to E exists, the cells of S and of E are both collected.
C6_StartAndEndCollected ==
    (CountReturnedNow /\ EndReachable)
        => StartCell \in best_path_positions /\ EndCell \in best_path_positions

-----------------------------------------------------------------------------
(* Claims about the loader and the finders, under SpecLoad.                *)

Rectangular(mz) == \A i, j \in 1..Len(mz) : Len(mz[i]) = Len(mz[j])

\* the positions of the cells of a kind in a rectangular grid
CellsOfKind(mz, kind) ==
    { p \in [x : 0..(Len(mz[1]) - 1), y : 0..(Len(mz) - 1)] : mz[p.y + 1][p.x + 1] = kind }

\* the first cell of a kind in row-major order
FirstCell(mz, kind) ==
    CHOOSE p \in CellsOfKind(mz, kind) :
        \A q \in CellsOfKind(mz, kind) : p.y < q.y \/ (p.y = q.y /\ p.x <= q.x)

\* C7: on a rectangular grid that holds a START (END) cell, find_start_position
\* (find_end_position) returns the position of the first such cell in row-major order.
C7_FindersLocateCells ==
    (pc = "min" /\ counter = 0 /\ Rectangular(maze))
        => /\ CellsOfKind(maze, START) # {} => start_position = FirstCell(maze, START)
           /\ CellsOfKind(maze, END) # {} => end_position = FirstCell(maze, END)

\* C8: on a grid without a START or without an END cell the finders fail, so no
\* search starts and neither search returns a value.
C8_NoSearchWithoutMarkers ==
    (load_result = "ok" /\ Rectangular(read_maze(lines)) /\ Len(lines) > 0
        /\ (CellsOfKind(read_maze(lines), START) = {}
              \/ CellsOfKind(read_maze(lines), END) = {}))
        => /\ pc \notin {"min", "count"}
           /\ min_result.kind # "return"
           /\ count_result.kind # "return"

\* C9: read_maze returns a grid only when the rows have one length and every
\* character is one of S, E, '.', '#'.
C9_LoadedGridIsWellFormed ==
    (pc = "min_start" /\ load_result = "ok")
        => /\ Rectangular(maze)
           /\ \A r \in 1..Len(maze) : \A c \in 1..Len(maze[r]) :
                  maze[r][c] \in {START, END, EMPTY, WALL}

-----------------------------------------------------------------------------
(* Claims about one pass of the loops.                                     *)

\* C10: in both searches a successor that keeps the popped entry's direction is
\* pushed with the popped cost plus move_cost, and one that turns with the popped
\* cost plus move_cost plus turn_cost, for the move_cost and turn_cost of the call.
C10_StepCosts ==
    [][ (pc \in {"min", "count"} /\ pc' = pc /\ queue # {})
          => \A s \in queue' \ queue :
                 s.cost = HeapMin(queue).cost + move_cost
                              + (IF s.direction = HeapMin(queue).direction
                                 THEN 0 ELSE turn_cost) ]_vars

\* C10 witness: under a cost model other than the default, the queue of the second
\* search holds a forward successor and a turned successor of one expanded node
C10_Witness ==
    /\ pc = "count"
    /\ move_cost = 1 /\ turn_cost = 3
    /\ \E n \in nodes : \E f, t \in queue :
          /\ n.cost > 0
          /\ f.previous = n.seq /\ f.direction = n.direction /\ f.cost = n.cost + 1
          /\ t.previous = n.seq /\ t.direction # n.direction /\ t.cost = n.cost + 4

-----------------------------------------------------------------------------
(* Claims about particular shapes of grid.                                 *)

\* the cells strictly between two positions of one row
Between(a, b) == { Position(c, a.y) : c \in (a.x + 1)..(b.x - 1) }

\* a grid with one START and one END cell in one row, START west of END, and no
\* wall between them
StraightCorridor(mz) ==
    /\ Len(mz) > 0
    /\ Rectangular(mz)
    /\ Cardinality(CellsOfKind(mz, START)) = 1
    /\ Cardinality(CellsOfKind(mz, END)) = 1
    /\ FirstCell(mz, START).y = FirstCell(mz, END).y
    /\ FirstCell(mz, START).x < FirstCell(mz, END).x
    /\ \A p \in Between(FirstCell(mz, START), FirstCell(mz, END)) : CellAt(mz, p) # WALL

\* C11: on a grid whose S and E cells lie in one row, S west of E with only open
\* cells between them, min_cost_to_end called with the start direction EAST returns
\* move_cost times the distance from S to E, with no turn_cost in it.
C11_StraightCorridorCost ==
    (MinReturnedNow /\ start_direction = "EAST" /\ StraightCorridor(maze))
        => min_result = Returned(move_cost * (FirstCell(maze, END).x - FirstCell(maze, START).x))

\* the position n steps away from a position in a direction
Ahead(d, position, n) ==
    Position(position.x + n * DirectionValue(d).dx, position.y + n * DirectionValue(d).dy)

\* every one of the n cells ahead can be entered
OpenRun(d, position, n) == \A i \in 1..n : Enterable(Ahead(d, position, i))

\* the routes of the input text with exactly one quarter turn: `straight` cells in
\* the start direction, the turn, then `turned` cells into the cell of E.  Such a
\* route takes the fewest steps and the fewest turns of any route to a cell that is
\* not straight ahead, so it is a cheapest route under every cost model.
OneTurnRoutes ==
    { r \in [straight : 0..(TextWidth + TextHeight), turned : 1..(TextWidth + TextHeight),
             direction : {turn_counter_clockwise(start_direction),
                          turn_clockwise(start_direction)}] :
        /\ OpenRun(start_direction, StartCell, r.straight)
        /\ OpenRun(r.direction, Ahead(start_direction, StartCell, r.straight), r.turned)
        /\ Ahead(r.direction, Ahead(start_direction, StartCell, r.straight), r.turned)
               = EndCell }

\* C12: when the cheapest route from the start state to E has exactly one quarter
\* turn, min_cost_to_end returns move_cost times the number of cells stepped plus
\* turn_cost once.
C12_SingleTurnCost ==
    MinReturnedNow
        => \A r \in OneTurnRoutes :
               min_result = Returned(move_cost * (r.straight + r.turned) + turn_cost)

\* C12 witness: a route of two or more cells east, a turn and a cell north, under a
\* cost model other than the default, and the search has returned
C12_Witness ==
    /\ MinReturnedNow
    /\ start_direction = "EAST" /\ move_cost = 1 /\ turn_cost = 3
    /\ \E r \in OneTurnRoutes : r.straight >= 2 /\ r.direction = "NORTH"
    /\ min_result.kind = "return"

\* the least-cost routes from the start state to s, each as the set of its cells
\* (every step costs something when move_cost + turn_cost > 0, so this ends)
RECURSIVE RoutesTo(_, _)
RoutesTo(dist, s) ==
    IF s = State(StartCell, start_direction) THEN {{StartCell}}
    ELSE UNION { { r \cup {s.position} : r \in RoutesTo(dist, u) } :
                 u \in TightBefore(dist, s) }

\* the least-cost routes from the start state to the cell of E
BestRoutes ==
    UNION { RoutesTo(RouteCosts, e) :
            e \in { s \in EndStates(RouteCosts) : RouteCosts[s] = MinimumCost } }

\* two least-cost routes that share no cell other than the cells of S and E
DisjointBestRoutes ==
    { pair \in BestRoutes \X BestRoutes :
        pair[1] # pair[2] /\ pair[1] \cap pair[2] = {StartCell, EndCell} }

\* C13: when two least-cost routes from S to E share no cell other than the cells
\* of S and E, count_best_path_tiles counts every cell of both routes, and the
\* number it returns is larger than the number of cells of either route.
C13_DisjointBestRoutesCounted ==
    (CountReturnedNow /\ move_cost + turn_cost > 0 /\ EndReachable)
        => \A pair \in DisjointBestRoutes :
               /\ pair[1] \subseteq best_path_positions
               /\ pair[2] \subseteq best_path_positions
               /\ count_result.value > Cardinality(pair[1])
               /\ count_result.value > Cardinality(pair[2])

-----------------------------------------------------------------------------
(* Claims about the maze object the searches are called on.                *)

\* C15: after min_cost_to_end and after count_best_path_tiles has returned or
\* raised, every cell of the maze object holds the Cell it held when read_maze
\* returned it.
C15_SearchesLeaveMazeUnchanged ==
    (load_result = "ok" /\ pc \in {"count_start", "count", "done"})
        => maze = read_maze(lines)

-----------------------------------------------------------------------------
(* A caller that makes two invocations on one maze object.  Each invocation *)
(* is the sequence of main(): min_cost_to_end, then count_best_path_tiles.  *)
(* The caller first runs each invocation alone, on a maze object of its own *)
(* read from the file, and keeps the results; then it reads the file once   *)
(* more and runs both invocations on that one object, switching between     *)
(* them between two passes of their loops.  The variables of the searches   *)
(* are the locals of the invocation that is running; the locals of the      *)
(* other invocation are parked in the harness.                              *)

\* most inner cells, other than the cells of S and E, of a maze two invocations share
MaxPairFree == 2

\* the arguments and locals of the running invocation
Context ==
    [start_direction |-> start_direction, move_cost |-> move_cost, turn_cost |-> turn_cost,
     pc |-> pc, start_position |-> start_position, end_position |-> end_position,
     queue |-> queue, counter |-> counter, visited |-> visited,
     min_cost_to_position |-> min_cost_to_position, nodes |-> nodes,
     best_paths |-> best_paths, best_path_positions |-> best_path_positions,
     min_result |-> min_result, count_result |-> count_result, popped |-> popped]

\* an invocation that has not started, with its arguments
FreshContext(args, at) ==
    [start_direction |-> args.start_direction, move_cost |-> args.move_cost,
     turn_cost |-> args.turn_cost,
     pc |-> at, start_position |-> Unbound, end_position |-> Unbound,
     queue |-> {}, counter |-> -1, visited |-> {},
     min_cost_to_position |-> <<>>, nodes |-> {},
     best_paths |-> <<>>, best_path_positions |-> {},
     min_result |-> NoResult, count_result |-> NoResult, popped |-> {}]

\* the invocation c becomes the running one
Resume(c) ==
    /\ start_direction' = c.start_direction
    /\ move_cost' = c.move_cost
    /\ turn_cost' = c.turn_cost
    /\ pc' = c.pc
    /\ start_position' = c.start_position
    /\ end_position' = c.end_position
    /\ queue' = c.queue
    /\ counter' = c.counter
    /\ visited' = c.visited
    /\ min_cost_to_position' = c.min_cost_to_position
    /\ nodes' = c.nodes
    /\ best_paths' = c.best_paths
    /\ best_path_positions' = c.best_path_positions
    /\ min_result' = c.min_result
    /\ count_result' = c.count_result
    /\ popped' = c.popped

\* the caller starts the next part of its run: the second invocation alone, then
\* both invocations together, each part on a maze object read anew
NextPhase ==
    /\ UNCHANGED other_days
    /\ harness.phase \in {"alone1", "alone2"}
    /\ pc = "done"
    /\ IF harness.phase = "alone1"
       THEN /\ Resume(FreshContext(harness.args[2], "read"))
            /\ harness' = [harness EXCEPT
                              !.phase = "alone2",
                              !.alone = Append(@, [min |-> min_result, count |-> count_result])]
       ELSE /\ Resume(FreshContext(harness.args[1], "read"))
            /\ harness' = [harness EXCEPT
                              !.phase = "together",
                              !.alone = Append(@, [min |-> min_result, count |-> count_result]),
                              !.parked = FreshContext(harness.args[2], "min_start"),
                              !.running = 1]
    /\ UNCHANGED <<lines, maze, load_result>>

\* between two passes the other invocation is given the processor
Switch ==
    /\ UNCHANGED other_days
    /\ harness.phase = "together"
    /\ pc # "read"
    /\ harness.parked.pc # "done"
    /\ Resume(harness.parked)
    /\ harness' = [harness EXCEPT !.parked = Context, !.running = 3 - @]
    /\ UNCHANGED <<lines, maze, load_result>>

\* a 7 x 7 maze with a staircase of seven turns and a longer route of five turns:
\*     #######
\*     #####E#
\*     ###...#
\*     ##..#.#
\*     #..##.#
\*     #S....#
\*     #######
StairMaze ==
    MazeText(7, 7, {Position(1, 1), Position(2, 1), Position(3, 1), Position(4, 1),
                    Position(1, 2), Position(2, 2), Position(1, 3), Position(4, 3),
                    Position(3, 4), Position(4, 4)})

\* every wall-bordered maze with at most MaxPairFree free cells
SmallPairMazes ==
    UNION { { MazeText(d[1], d[2], walls) : walls \in SUBSET FreeCells(d[1], d[2]) } :
            d \in { e \in (4..(MaxPairFree + 4)) \X (4..(MaxPairFree + 4)) :
                       (e[1] - 2) * (e[2] - 2) - 2 <= MaxPairFree } }

\* the two invocations have one start direction and one move cost, and turn costs
\* t1 <= t2
PairInputs ==
    { [file |-> f, start_direction |-> d, move_cost |-> 1, turn_costs |-> t] :
        f \in SmallPairMazes, d \in Direction, t \in {<<0, 1>>, <<1, 3>>} }
      \cup { [file |-> StairMaze, start_direction |-> "WEST", move_cost |-> 3,
              turn_costs |-> <<6, 7>>] }

PairArgs(i) ==
    [n \in 1..2 |-> [start_direction |-> i.start_direction, move_cost |-> i.move_cost,
                     turn_cost |-> i.turn_costs[n]]]

InitPair ==
    \E i \in PairInputs :
        /\ lines = i.file
        /\ maze = <<>>
        /\ load_result = "none"
        /\ start_direction = i.start_direction
        /\ move_cost = i.move_cost
        /\ turn_cost = i.turn_costs[1]
        /\ pc = "read"
        /\ start_position = Unbound
        /\ end_position = Unbound
        /\ queue = {}
        /\ counter = -1
        /\ visited = {}
        /\ min_cost_to_position = <<>>
        /\ nodes = {}
        /\ best_paths = <<>>
        /\ best_path_positions = {}
        /\ min_result = NoResult
        /\ count_result = NoResult
        /\ popped = {}
        /\ harness = [phase |-> "alone1", args |-> PairArgs(i), alone |-> <<>>,
                      parked |-> FreshContext(PairArgs(i)[2], "min_start"), running |-> 1]
        /\ Off15 /\ Off6 /\ Off18

NextPair == ReadMaze \/ MinStart \/ MinStep \/ CountStart \/ CountStep \/ NextPhase \/ Switch

SpecPair == InitPair /\ [][NextPair]_vars

\* C14: for a fixed maze, start direction and move cost and turn costs t1 <= t2,
\* when E is reachable min_cost_to_end returns with t1 a value that is at most the
\* value it returns with t2.
C14_MonotoneInTurnCost ==
    (harness.phase = "together" /\ pc = "read" /\ EndReachable)
        => /\ harness.alone[1].min.kind = "return"
           /\ harness.alone[2].min.kind = "return"
           /\ harness.alone[1].min.value <= harness.alone[2].min.value

\* both invocations that share the maze object have finished
BothDone == harness.phase = "together" /\ pc = "done" /\ harness.parked.pc = "done"

\* the results of the two invocations are the results each gave when run alone
ResultsAsAlone ==
    /\ min_result = harness.alone[harness.running].min
    /\ count_result = harness.alone[harness.running].count
    /\ harness.parked.min_result = harness.alone[3 - harness.running].min
    /\ harness.parked.count_result = harness.alone[3 - harness.running].count

\* a step that is a pass of the running invocation in which it reads the cell
\* maze[position.y][position.x] of the entry it pops
PassReadsCell ==
    /\ harness.phase = "together"
    /\ harness' = harness
    /\ \/ pc = "min" /\ visited' # visited
       \/ pc = "count" /\ queue # {} /\ queue' # queue
    /\ ~CellRaises(maze, HeapMin(queue).position)

\* C16: when two invocations run on one maze object with their passes interleaved
\* in any order, each returns what it returns when run alone, and no pass reads a
\* cell that differs from the cell the loader put there.
C16_InterleavedInvocationsIndependent ==
    [][ /\ BothDone' => ResultsAsAlone'
        /\ PassReadsCell
             => CellAt(maze, HeapMin(queue).position)
                    = CellAt(read_maze(lines), HeapMin(queue).position) ]_vars

-----------------------------------------------------------------------------
(* Claims about the passes of the loops.                                   *)

\* the nodes on the chain of predecessors of a node, the node itself left out
RECURSIVE Predecessors(_, _)
Predecessors(node, table) ==
    IF node.previous = None THEN {}
    ELSE LET before == CHOOSE n \in table : n.seq = node.previous
         IN  {before} \cup Predecessors(before, table)

\* C17: every invocation finishes.  min_cost_to_end hands out at most three
\* sequence numbers for every cell that can be entered; count_best_path_tiles never
\* expands a state (position, direction) again at the cost of one of the node's own
\* predecessors, which nothing would stop it from repeating for ever.
C17_SearchesFinish ==
    /\ pc = "min" => counter <= 3 * Cardinality({ p \in TextPositions : Enterable(p) })
    /\ pc = "count" =>
           \A n \in nodes : \A a \in Predecessors(n, nodes) :
               ~(a.position = n.position /\ a.direction = n.direction /\ a.cost = n.cost)

\* a step of min_cost_to_end in which the popped entry is dropped by the test of
\* line 179: nothing is returned, marked or pushed
SkipsPopped ==
    /\ pc = "min" /\ pc' = "min"
    /\ queue # {}
    /\ queue' = queue \ {HeapMin(queue)}
    /\ visited' = visited

\* C18: min_cost_to_end skips a popped entry for an open cell as already visited
\* only if an entry with the same position and the same direction was popped
\* before; an entry whose position was popped before only with other directions is
\* expanded.
C18_VisitedPerState ==
    [][ (SkipsPopped /\ ~CellRaises(maze, HeapMin(queue).position)
            /\ CellAt(maze, HeapMin(queue).position) # WALL)
          => [position |-> HeapMin(queue).position, direction |-> HeapMin(queue).direction]
                 \in popped ]_vars

\* a step of count_best_path_tiles in which the popped node is dropped by the test
\* of lines 289-290, the cost recorded for its position
DropsByPositionCost ==
    /\ pc = "count" /\ pc' = "count"
    /\ queue # {}
    /\ queue' = queue \ {HeapMin(queue)}
    /\ ~CellRaises(maze, HeapMin(queue).position)
    /\ CellAt(maze, HeapMin(queue).position) # WALL
    /\ HeapMin(queue).cost <= min_cost_to_position[end_position]
    /\ best_paths' = best_paths

\* C19: count_best_path_tiles drops a popped node by the recorded cost of its cell
\* only if a lower cost was recorded for the same position with the same direction,
\* never because of a lower cost recorded for the position under another direction.
C19_CostRecordPerState ==
    [][ DropsByPositionCost
          => \E n \in nodes : /\ n.position = HeapMin(queue).position
                              /\ n.direction = HeapMin(queue).direction
                              /\ n.cost < HeapMin(queue).cost ]_vars

\* a step that is a pass of a loop in which the cell of the popped entry is read
ReadsPopped ==
    \/ pc = "min" /\ visited' # visited
    \/ pc = "count" /\ queue # {} /\ queue' # queue

\* C20: on a rectangular grid, open border cells included, every position either
\* search pushes lies inside the grid, and the grid is never indexed with a
\* coordinate that is negative or out of range.  (Stated for grids of two rows and
\* two columns or more, where the positions both searches start from and look for
\* lie inside the grid.)
C20_PositionsStayInsideGrid ==
    [][ (pc \in {"min", "count"} /\ Len(maze) >= 2 /\ Rectangular(maze)
            /\ Len(maze[1]) >= 2)
          => /\ \A e \in queue' \ queue : pc' = pc => is_within_bounds(maze, e.position)
             /\ ReadsPopped => is_within_bounds(maze, HeapMin(queue).position) ]_vars

-----------------------------------------------------------------------------
(* Claims about the passes of count_best_path_tiles.                       *)

\* a pass of count_best_path_tiles pops an entry
CountPops == pc = "count" /\ queue # {} /\ pc' \in {"count", "done"}

\* the pass neither expands nor records the popped entry
Discards ==
    /\ queue' = queue \ {HeapMin(queue)}
    /\ UNCHANGED <<counter, min_cost_to_position, nodes, best_paths>>

\* C21: once an entry at the end position has been accepted with cost c*, every
\* later popped entry of a cost above c* is discarded, neither expanded nor
\* recorded; every node in best_paths has the cost c*; and the pass that accepts
\* an entry at the end position does not end the search.
C21_PrunedAboveBestEndCost ==
    [][ CountPops =>
          /\ (best_paths # <<>> /\ HeapMin(queue).cost > best_paths[1].cost) => Discards
          /\ \A i \in 1..Len(best_paths') : best_paths'[i].cost = best_paths'[1].cost
          /\ (best_paths' # best_paths) => (pc' = "count" /\ queue' = queue \ {HeapMin(queue)})
      ]_vars

\* C21 witness: two entries at the end position have been accepted, the search goes
\* on, and the next entry it pops costs more than they do and is at an open cell
\* for which no cost is recorded
C21_Witness ==
    /\ pc = "count" /\ queue # {}
    /\ Len(best_paths) >= 2
    /\ HeapMin(queue).cost > best_paths[1].cost
    /\ Enterable(HeapMin(queue).position)
    /\ HeapMin(queue).position \notin DOMAIN min_cost_to_position

\* the cost recorded for a position was stored by an accepted entry, not as the
\* sentinel of line 241
Finalized(position) ==
    /\ position \in DOMAIN min_cost_to_position
    /\ ~(position = end_position /\ best_paths = <<>>)

\* C22: in count_best_path_tiles no assignment lowers the cost that an accepted
\* entry stored in min_cost_to_position for its position, and no position leaves
\* the record (move_cost and turn_cost are not negative).
C22_FinalizedCostsNeverLowered ==
    [][ (pc = "count" /\ pc' \in {"count", "done"}) =>
          \A p \in DOMAIN min_cost_to_position :
              /\ p \in DOMAIN min_cost_to_position'
              /\ Finalized(p) => min_cost_to_position'[p] >= min_cost_to_position[p]
      ]_vars

\* C22 witness: two entries at one position were accepted and expanded, so the cost
\* recorded for that position has been assigned a second time
C22_Witness ==
    /\ pc = "count"
    /\ move_cost > 0
    /\ \E a, b \in nodes :
           a.seq < b.seq /\ a.position = b.position /\ a.direction # b.direction

-----------------------------------------------------------------------------
(* Claims about successors, the frontier and the directions.               *)

\* the four directions by name, written out apart from the Direction class
LeftOf(d) ==
    CASE d = "NORTH" -> "WEST" [] d = "WEST" -> "SOUTH"
      [] d = "SOUTH" -> "EAST" [] d = "EAST" -> "NORTH"

RightOf(d) ==
    CASE d = "NORTH" -> "EAST" [] d = "EAST" -> "SOUTH"
      [] d = "SOUTH" -> "WEST" [] d = "WEST" -> "NORTH"

OppositeOf(d) ==
    CASE d = "NORTH" -> "SOUTH" [] d = "SOUTH" -> "NORTH"
      [] d = "EAST" -> "WEST" [] d = "WEST" -> "EAST"

\* the cell next to a position in a direction, x growing east and y growing south
CellToward(d, position) ==
    CASE d = "NORTH" -> Position(position.x, position.y - 1)
      [] d = "SOUTH" -> Position(position.x, position.y + 1)
      [] d = "EAST"  -> Position(position.x + 1, position.y)
      [] d = "WEST"  -> Position(position.x - 1, position.y)

\* a pass of either search that pushes anything
Pushes == pc \in {"min", "count"} /\ pc' = pc /\ queue' \ queue # {}

\* C23: a pass that expands a popped entry pushes exactly three entries: one at the
\* cell to the left facing left, one at the cell ahead facing ahead, one at the
\* cell to the right facing right; none is at the popped entry's position and none
\* faces the opposite direction.
C23_ThreeSuccessors ==
    [][ Pushes =>
          LET e == HeapMin(queue)
              pushed == queue' \ queue
          IN  /\ Cardinality(pushed) = 3
              /\ { State(n.position, n.direction) : n \in pushed }
                     = { State(CellToward(d, e.position), d) :
                         d \in {LeftOf(e.direction), e.direction, RightOf(e.direction)} }
              /\ \A n \in pushed :
                     /\ n.position # e.position
                     /\ n.direction # OppositeOf(e.direction)
      ]_vars

\* C23 witness: count_best_path_tiles has expanded four or more entries, one of them
\* an entry that had itself turned, and pushed entries wait in the queue
C23_Witness ==
    /\ pc = "count"
    /\ Cardinality(nodes) >= 4
    /\ \E n \in nodes : n.direction # start_direction
    /\ Cardinality(queue) >= 3

\* the pair (cost, sequence number) of a is not above that of b
PairAtMost(a, b) == a.cost < b.cost \/ (a.cost = b.cost /\ a.seq <= b.seq)

\* C24: within one search the sequence numbers are handed out in push order, 0 to
\* the start entry and the next three numbers to the left, forward and right
\* successor of each expansion, so no two entries of the frontier share one; and
\* every pop removes the entry of the smallest (cost, sequence number) pair,
\* whatever the positions, directions and predecessors of the entries are.
C24_FrontierOrdering ==
    [][ /\ (pc' \in {"min", "count"} /\ pc' # pc) =>
               (counter' = 0 /\ \A e \in queue' : e.seq = 0)
        /\ (pc \in {"min", "count"} /\ queue # {}) =>
               /\ \E r \in queue :
                      /\ queue \ queue' = {r}
                      /\ \A f \in queue : PairAtMost(r, f)
               /\ \A a, b \in queue' : a.seq = b.seq => a = b
               /\ \A n \in queue' \ queue :
                      /\ n.seq \in (counter + 1)..(counter + 3)
                      /\ counter' = counter + 3
                      /\ n.seq = counter + (CASE n.direction = LeftOf(HeapMin(queue).direction) -> 1
                                              [] n.direction = HeapMin(queue).direction -> 2
                                              [] n.direction = RightOf(HeapMin(queue).direction) -> 3)
      ]_vars

\* C24 witness: the frontier holds two entries of one cost, and the entry to be
\* popped next was pushed later than an entry of a higher cost
C24_Witness ==
    /\ pc \in {"min", "count"}
    /\ counter >= 6
    /\ \E a, b \in queue : a # b /\ a.cost = b.cost
    /\ \E r, c \in queue :
           /\ \A f \in queue : PairAtMost(r, f)
           /\ c.seq < r.seq /\ c.cost > r.cost

-----------------------------------------------------------------------------
(* Claims relating the two searches, and the predecessor chains.           *)

\* a 7 x 7 maze in which, facing north with a turn costing two moves, a route of
\* four turns and ten steps and a route of four turns and eight steps both enter
\* the cell below E, the first heading east and the second heading north, at one
\* cost:
\*     #######
\*     #...#E#
\*     #.#...#
\*     #.###.#
\*     #.#...#
\*     #S..###
\*     #######
TieMaze ==
    MazeText(7, 7, { Position(4, 1), Position(2, 2), Position(2, 3), Position(3, 3),
                     Position(4, 3), Position(2, 4), Position(4, 5), Position(5, 5) })

\* main() on that maze, a turn costing two moves
InitTie == InitWith({TieMaze}, Direction, {<<1, 2>>, <<2, 4>>})

SpecTie == InitTie /\ [][Next]_vars

\* C25: when min_cost_to_end returns c, every end node that count_best_path_tiles
\* accepts into best_paths on the same maze and arguments has the cost c.
C25_SearchesAgreeOnMinimum ==
    (pc \in {"count", "done"} /\ min_result.kind = "return")
        => \A i \in 1..Len(best_paths) : best_paths[i].cost = min_result.value

\* the chain of predecessors of an accepted end node, the end node included
Chain(i) == {best_paths[i]} \cup Predecessors(best_paths[i], nodes)

\* the positions are next to each other in the grid
Adjacent(a, b) ==
    \/ a.x = b.x /\ (a.y = b.y + 1 \/ b.y = a.y + 1)
    \/ a.y = b.y /\ (a.x = b.x + 1 \/ b.x = a.x + 1)

\* C26: the chain of predecessors of every node of best_paths ends at the start node
\* (start position, start direction, cost 0, no predecessor); each other node of
\* the chain is at a cell next to its predecessor's and costs move_cost more than
\* its predecessor when it faces the same way, move_cost + turn_cost more when it
\* does not; and no node of the chain is at a WALL cell.
C26_ChainsAreRoutes ==
    (pc \in {"count", "done"}) =>
        \A i \in 1..Len(best_paths) :
            /\ \E n \in Chain(i) : n.previous = None
            /\ \A n \in Chain(i) :
                   /\ Enterable(n.position)
                   /\ IF n.previous = None
                      THEN /\ n.position = start_position
                           /\ n.direction = start_direction
                           /\ n.cost = 0
                      ELSE \E before \in Chain(i) :
                               /\ before.seq = n.previous
                               /\ Adjacent(before.position, n.position)
                               /\ n.cost = before.cost + move_cost
                                      + (IF n.direction = before.direction THEN 0
                                         ELSE turn_cost)

\* C26 witness: moves and turns cost something, and count_best_path_tiles has
\* returned with an accepted end node that has a chain of five or more nodes and a
\* turn on it
C26_Witness ==
    /\ CountReturnedNow
    /\ move_cost > 0 /\ turn_cost > 0
    /\ Len(best_paths) >= 1
    /\ \E i \in 1..Len(best_paths) :
           /\ Cardinality(Chain(i)) >= 5
           /\ \E n \in Chain(i) : n.direction # start_direction

\* C27: the two turns are quarter turns and undo each other: for every direction d
\* (each of the four is a start direction and the direction of frontier entries),
\* turning one way and then the other gives d, four turns one way give d, one turn
\* gives neither d nor the opposite of d, and a turn takes the step (dx, dy) to
\* (-dy, dx) clockwise and to (dy, -dx) counter-clockwise (y grows downward).
C27_QuarterTurns ==
    \A d \in {start_direction} \cup { e.direction : e \in queue } :
        /\ turn_clockwise(turn_counter_clockwise(d)) = d
        /\ turn_counter_clockwise(turn_clockwise(d)) = d
        /\ turn_clockwise(turn_clockwise(turn_clockwise(turn_clockwise(d)))) = d
        /\ turn_counter_clockwise(turn_counter_clockwise(
               turn_counter_clockwise(turn_counter_clockwise(d)))) = d
        /\ turn_clockwise(d) \notin {d, OppositeOf(d)}
        /\ turn_counter_clockwise(d) \notin {d, OppositeOf(d)}
        /\ DirectionValue(turn_clockwise(d))
               = [dx |-> -DirectionValue(d).dy, dy |-> DirectionValue(d).dx]
        /\ DirectionValue(turn_counter_clockwise(d))
               = [dx |-> DirectionValue(d).dy, dy |-> -DirectionValue(d).dx]

\* C27 witness: the search has expanded nodes facing each of the four directions,
\* all of them reached from the start direction by turns
C27_Witness ==
    /\ pc = "count"
    /\ { n.direction : n \in nodes } = Direction
    /\ \E n \in nodes :
           /\ n.direction = turn_clockwise(turn_clockwise(start_direction))
           /\ n.direction = turn_counter_clockwise(turn_counter_clockwise(start_direction))

-----------------------------------------------------------------------------
(* day15/main.py: simulate_robot_movements on a warehouse of single cells.  *)

\* most inner cells of a warehouse, and most moves of a simulation
MaxWarehouseInner == 5
MaxMoves == 4

BOX == "BOX"
BOX_LEFT == "BOX_LEFT"
BOX_RIGHT == "BOX_RIGHT"
ROBOT == "ROBOT"

Move == {"NORTH", "SOUTH", "EAST", "WEST"}

\* Move.<member>.value
MoveValue(move) ==
    CASE move = "NORTH" -> <<0, -1>>
      [] move = "SOUTH" -> <<0, 1>>
      [] move = "EAST"  -> <<1, 0>>
      [] move = "WEST"  -> <<-1, 0>>

\* Move.apply
apply(move, position) ==
    Position(position.x + MoveValue(move)[1], position.y + MoveValue(move)[2])

interpret_char_as_single_cells(char) ==
    CASE char = "O" -> <<BOX>>
      [] char = "." -> <<EMPTY>>
      [] char = "@" -> <<ROBOT>>
      [] char = "#" -> <<WALL>>

RECURSIVE Extend(_, _)
Extend(row, i) ==
    IF i > Len(row) THEN <<>>
    ELSE interpret_char_as_single_cells(row[i]) \o Extend(row, i + 1)

interpret_warehouse_layout(raw_layout) ==
    [r \in 1..Len(raw_layout) |-> Extend(raw_layout[r], 1)]

\* the value None that find_empty_position returns at a wall
NoPosition == Position(-1, -1)

\* find_empty_position; the grids of this model are wall-bordered, so the scan
\* ends before it leaves the grid
RECURSIVE find_empty_position(_, _, _)
find_empty_position(grid, starting_position, move) ==
    LET position == apply(move, starting_position)
        cell == CellAt(grid, position)
    IN  IF cell = EMPTY THEN position
        ELSE IF cell = WALL THEN NoPosition
        ELSE find_empty_position(grid, position, move)

\* mutant of swap: the cell of position1 is stored at both positions
swap_storing_one(grid, position1, position2) ==
    [r \in 1..Len(grid) |->
        [c \in 1..Len(grid[r]) |->
            IF Position(c - 1, r - 1) = position2 THEN CellAt(grid, position1)
            ELSE grid[r][c]]]

\* swap: the grid after the simultaneous assignment of lines 175-178
swap(grid, position1, position2) ==
    [r \in 1..Len(grid) |->
        [c \in 1..Len(grid[r]) |->
            IF Position(c - 1, r - 1) = position1 THEN CellAt(grid, position2)
            ELSE IF Position(c - 1, r - 1) = position2 THEN CellAt(grid, position1)
            ELSE grid[r][c]]]

\* push_small_box: the grid it leaves and the position it returns
push_small_box(grid, robot, box_position, move) ==
    LET next_empty_position == find_empty_position(grid, box_position, move)
    IN  IF next_empty_position = NoPosition
        THEN [grid |-> grid, robot |-> robot]
        ELSE [grid  |-> swap(swap(grid, box_position, next_empty_position),
                             robot, box_position),
              robot |-> box_position]

\* push_large_box: the body is a TODO that returns robot_position
push_large_box(grid, robot, box_position, move) == [grid |-> grid, robot |-> robot]

\* the positions of the robot cells
RobotCells(grid) ==
    { p \in { Position(c - 1, r - 1) : r \in 1..Len(grid), c \in 1..Len(grid[1]) } :
      CellAt(grid, p) = ROBOT }

\* find_robot_position scans the rows from the top and each row from the left
find_robot_position(grid) ==
    CHOOSE p \in RobotCells(grid) :
        \A q \in RobotCells(grid) : p.y < q.y \/ (p.y = q.y /\ p.x <= q.x)

\* lines 248-249
SimulateStart ==
    /\ simulation = "called"
    /\ IF RobotCells(warehouse) = {}
       THEN /\ simulation' = "ValueError"
            /\ new_layout' = warehouse
            /\ UNCHANGED robot_position
       ELSE /\ simulation' = "loop"
            /\ new_layout' = warehouse
            /\ robot_position' = find_robot_position(warehouse)
    /\ UNCHANGED <<warehouse, moves>>
    /\ UNCHANGED <<vars16, vars6, vars18>>

\* one pass of the loop of lines 251-277, or the return of line 279
SimulateMove ==
    /\ simulation = "loop"
    /\ IF moves = 0
       THEN /\ simulation' = "returned"
            /\ UNCHANGED <<new_layout, robot_position, moves>>
       ELSE \E move \in Move :
               LET next_position == apply(move, robot_position)
                   cell == CellAt(new_layout, next_position)
                   after == CASE cell = BOX ->
                                     push_small_box(new_layout, robot_position,
                                                    next_position, move)
                              [] cell \in {BOX_LEFT, BOX_RIGHT} ->
                                     push_large_box(new_layout, robot_position,
                                                    next_position, move)
                              [] cell = EMPTY ->
                                     [grid  |-> swap(new_layout, robot_position,
                                                     next_position),
                                      robot |-> next_position]
                              [] OTHER -> [grid |-> new_layout, robot |-> robot_position]
               IN  /\ new_layout' = after.grid
                   /\ robot_position' = after.robot
                   /\ moves' = moves - 1
                   /\ simulation' = "loop"
    /\ UNCHANGED warehouse
    /\ UNCHANGED <<vars16, vars6, vars18>>

WarehouseChars == {"O", ".", "#", "@"}

\* every wall-bordered warehouse of at most MaxWarehouseInner inner cells with one
\* robot, as the characters of the input file
RawWarehouses ==
    UNION { { RoomText(d[1], d[2], inner) :
              inner \in { f \in [(1..(d[1] - 2)) \X (1..(d[2] - 2)) -> WarehouseChars] :
                          Cardinality({ k \in DOMAIN f : f[k] = "@" }) = 1 } } :
            d \in { e \in (3..(MaxWarehouseInner + 2)) \X (3..(MaxWarehouseInner + 2)) :
                       (e[1] - 2) * (e[2] - 2) <= MaxWarehouseInner } }

\* main() of day16 is not run
Off16 ==
    /\ lines = <<>>
    /\ maze = <<>>
    /\ load_result = "none"
    /\ start_direction = DEFAULT_STARTING_DIRECTION
    /\ move_cost = DEFAULT_MOVE_COST
    /\ turn_cost = DEFAULT_TURN_COST
    /\ pc = "off"
    /\ start_position = Unbound
    /\ end_position = Unbound
    /\ queue = {}
    /\ counter = -1
    /\ visited = {}
    /\ min_cost_to_position = <<>>
    /\ nodes = {}
    /\ best_paths = <<>>
    /\ best_path_positions = {}
    /\ min_result = NoResult
    /\ count_result = NoResult
    /\ popped = {}
    /\ harness = NoHarness

\* main() of day15 up to the call of simulate_robot_movements, with up to MaxMoves
\* moves, each drawn when the loop takes it
InitWarehouse ==
    /\ \E raw \in RawWarehouses : warehouse = interpret_warehouse_layout(raw)
    /\ new_layout = <<>>
    /\ robot_position = Unbound
    /\ moves \in 0..MaxMoves
    /\ simulation = "called"
    /\ Off16 /\ Off6 /\ Off18

NextWarehouse == SimulateStart \/ SimulateMove

SpecWarehouse == InitWarehouse /\ [][NextWarehouse]_vars

\* the number of cells of a grid that hold a given Cell
CountOf(grid, cell) ==
    Cardinality({ p \in { Position(c - 1, r - 1) : r \in 1..Len(grid), c \in 1..Len(grid[1]) } :
                  CellAt(grid, p) = cell })

\* the positions of a grid that hold WALL
WallsOf(grid) ==
    { p \in { Position(c - 1, r - 1) : r \in 1..Len(grid), c \in 1..Len(grid[1]) } :
      CellAt(grid, p) = WALL }

\* C28: on every wall-bordered warehouse of single cells with one robot, after each
\* move of simulate_robot_movements the layout holds exactly one ROBOT cell, at
\* robot_position; it holds as many BOX cells as the warehouse passed in and WALL
\* at the same cells; and no step changes the warehouse passed in.
C28_WarehouseInvariant ==
    [][ /\ warehouse' = warehouse
        /\ simulation' \in {"loop", "returned"} =>
               /\ RobotCells(new_layout') = {robot_position'}
               /\ CountOf(new_layout', BOX) = CountOf(warehouse, BOX)
               /\ WallsOf(new_layout') = WallsOf(warehouse)
               /\ Len(new_layout') = Len(warehouse)
      ]_vars

\* C28 witness: the simulation has returned, the robot has left its cell, a box has
\* left its cell, and the robot stands next to a wall with two boxes in a row
\* before it
C28_Witness ==
    /\ simulation = "returned"
    /\ robot_position # find_robot_position(warehouse)
    /\ Cardinality({ p \in { Position(c - 1, r - 1) :
                             r \in 1..Len(warehouse), c \in 1..Len(warehouse[1]) } :
                     CellAt(warehouse, p) = BOX /\ CellAt(new_layout, p) # BOX }) >= 1
    /\ \E p \in WallsOf(warehouse) :
           \E move \in Move : apply(move, robot_position) = p
    /\ \E move \in Move :
           /\ CellAt(new_layout, apply(move, robot_position)) = BOX
           /\ CellAt(new_layout, apply(move, apply(move, robot_position))) = BOX

-----------------------------------------------------------------------------
(* day6/main.py: count_obstruction_positions_v2, the variant main calls.    *)

\* most cells of a map
MaxMapCells == 9

OBSTACLE == "#"
GUARD_START == "^"

GuardDirection == {"North", "East", "South", "West"}

GuardDirectionValue(d) ==
    CASE d = "North" -> [dx |-> 0,  dy |-> -1]
      [] d = "East"  -> [dx |-> 1,  dy |-> 0]
      [] d = "South" -> [dx |-> 0,  dy |-> 1]
      [] d = "West"  -> [dx |-> -1, dy |-> 0]

\* Direction.advance of day6
guard_advance(d, position) ==
    Position(position.x + GuardDirectionValue(d).dx, position.y + GuardDirectionValue(d).dy)

rotate_clockwise(d) ==
    CASE d = "North" -> "East"
      [] d = "East"  -> "South"
      [] d = "South" -> "West"
      [] OTHER       -> "North"

Step(position, direction) == [position |-> position, direction |-> direction]

MapPositions(map) == { Position(c - 1, r - 1) : r \in 1..Len(map), c \in 1..Len(map[1]) }

\* find_start scans the rows from the top and each row from the left
find_start(map) ==
    LET starts == { p \in MapPositions(map) : CellAt(map, p) = GUARD_START }
    IN  CHOOSE p \in starts : \A q \in starts : p.y < q.y \/ (p.y = q.y /\ p.x <= q.x)

is_valid_position(map, position) ==
    /\ 0 <= position.x /\ position.x < Len(map[1])
    /\ 0 <= position.y /\ position.y < Len(map)

\* the generator of generate_route has finished
RouteEnd == Step(Position(-1, -1), "North")

\* generate_route, lines 105-113: the Step yielded after `step`, or RouteEnd
RouteNext(map, step) ==
    LET next_position == guard_advance(step.direction, step.position)
    IN  IF ~is_valid_position(map, next_position) THEN RouteEnd
        ELSE IF CellAt(map, next_position) = OBSTACLE
             THEN Step(step.position, rotate_clockwise(step.direction))
        ELSE Step(next_position, step.direction)

\* will_create_infinite_loop, the loop of lines 176-182 from the Step `step` on,
\* `previous` being its copy of previous_steps
RECURSIVE will_create_infinite_loop(_, _, _)
will_create_infinite_loop(step, previous, map) ==
    IF step = RouteEnd THEN FALSE
    ELSE IF step \in previous THEN TRUE
    ELSE will_create_infinite_loop(RouteNext(map, step), previous \cup {step}, map)

\* main, lines 212-214 and 222-224, and lines 190-194
PatrolStart ==
    /\ patrol = "called"
    /\ current_step' = Step(find_start(area_map), "North")
    /\ previous_steps' = {}
    /\ loop_positions' = {}
    /\ patrol' = "loop"
    /\ UNCHANGED area_map
    /\ UNCHANGED <<vars16, vars15, vars18>>

\* one pair of pairwise(generate_route(...)) and the loop body of lines 196-202,
\* or, when the route has ended, the return of line 204
PatrolStep ==
    /\ patrol = "loop"
    /\ LET next_step == RouteNext(area_map, current_step)
           rerouted_step == Step(current_step.position,
                                 rotate_clockwise(current_step.direction))
       IN  IF next_step = RouteEnd
           THEN /\ patrol' = "returned"
                /\ UNCHANGED <<current_step, previous_steps, loop_positions>>
           ELSE /\ previous_steps' = previous_steps \cup {current_step}
                /\ loop_positions' =
                       IF will_create_infinite_loop(rerouted_step,
                                                    previous_steps \cup {current_step},
                                                    area_map)
                       THEN loop_positions \cup {next_step.position}
                       ELSE loop_positions
                /\ current_step' = next_step
                /\ patrol' = "loop"
    /\ UNCHANGED area_map
    /\ UNCHANGED <<vars16, vars15, vars18>>

\* every map of at most MaxMapCells cells with one guard
PatrolMaps ==
    UNION { { [r \in 1..d[2] |-> [c \in 1..d[1] |-> f[<<c, r>>]]] :
              f \in { g \in [(1..d[1]) \X (1..d[2]) -> {".", OBSTACLE, GUARD_START}] :
                      Cardinality({ k \in DOMAIN g : g[k] = GUARD_START }) = 1 } } :
            d \in { e \in (1..MaxMapCells) \X (1..MaxMapCells) : e[1] * e[2] <= MaxMapCells } }

InitPatrol ==
    /\ area_map \in PatrolMaps
    /\ current_step = Step(Unbound, "North")
    /\ previous_steps = {}
    /\ loop_positions = {}
    /\ patrol = "called"
    /\ Off16 /\ Off15 /\ Off18

NextPatrol == PatrolStart \/ PatrolStep

SpecPatrol == InitPatrol /\ [][NextPatrol]_vars

\* the map with one more obstacle
WithObstacle(map, position) ==
    [r \in 1..Len(map) |->
        [c \in 1..Len(map[r]) |->
            IF Position(c - 1, r - 1) = position THEN OBSTACLE ELSE map[r][c]]]

\* the guard, walking by the rules of the puzzle from `step` on, comes back to a
\* Step it has been at
RECURSIVE WalksForever(_, _, _)
WalksForever(map, step, seen) ==
    LET ahead == Position(
                     step.position.x + (CASE step.direction = "East" -> 1
                                          [] step.direction = "West" -> -1 [] OTHER -> 0),
                     step.position.y + (CASE step.direction = "South" -> 1
                                          [] step.direction = "North" -> -1 [] OTHER -> 0))
        turned == CASE step.direction = "North" -> "East" [] step.direction = "East" -> "South"
                    [] step.direction = "South" -> "West" [] step.direction = "West" -> "North"
    IN  IF step \in seen THEN TRUE
        ELSE IF ahead \notin MapPositions(map) THEN FALSE
        ELSE IF map[ahead.y + 1][ahead.x + 1] = OBSTACLE
             THEN WalksForever(map, Step(step.position, turned), seen \cup {step})
        ELSE WalksForever(map, Step(ahead, step.direction), seen \cup {step})

GuardStart == CHOOSE p \in MapPositions(area_map) : area_map[p.y + 1][p.x + 1] = GUARD_START

\* the positions where one more obstacle keeps the guard on the map for ever
TrueLoopPositions ==
    { p \in MapPositions(area_map) :
        /\ p # GuardStart
        /\ area_map[p.y + 1][p.x + 1] # OBSTACLE
        /\ WalksForever(WithObstacle(area_map, p), Step(GuardStart, "North"), {}) }

\* the guard leaves the map as it stands
GuardLeaves == ~WalksForever(area_map, Step(GuardStart, "North"), {})

\* C29: on a map the guard leaves, count_obstruction_positions_v2 returns the
\* number of positions, other than the guard's start and the obstacles, at which
\* one more obstacle keeps the guard on the map for ever; and
\* will_create_infinite_loop is true exactly when the obstacle placed before the
\* guard at that step does so.
C29_ObstructionCount ==
    GuardLeaves =>
        /\ patrol = "returned" =>
               Cardinality(loop_positions) = Cardinality(TrueLoopPositions)
        /\ (patrol = "loop" /\ RouteNext(area_map, current_step) # RouteEnd) =>
               LET next_step == RouteNext(area_map, current_step)
               IN  will_create_infinite_loop(
                       Step(current_step.position,
                            rotate_clockwise(current_step.direction)),
                       previous_steps \cup {current_step}, area_map)
                   <=> (next_step.position \in TrueLoopPositions)

\* the same, of the returned count alone
C29_ReturnedCount ==
    (GuardLeaves /\ patrol = "returned") =>
        Cardinality(loop_positions) = Cardinality(TrueLoopPositions)

-----------------------------------------------------------------------------
(* day18/main.py: find_blocking_byte_position.                              *)

\* widest and tallest memory space
MaxSide == 3
\* most bytes dropped
MaxBytes == 3

SAFE == "."
CORRUPTED == "#"

create_memory_space(width, height) == [r \in 1..height |-> [c \in 1..width |-> SAFE]]

\* memory_space[y][x] = byte
WithByte(space, position, byte) ==
    [space EXCEPT ![position.y + 1][position.x + 1] = byte]

RECURSIVE drop_bytes(_, _)
drop_bytes(positions, space) ==
    IF positions = <<>> THEN space
    ELSE drop_bytes(Tail(positions), WithByte(space, Head(positions), CORRUPTED))

is_within_memory(position, space) ==
    /\ 0 <= position.x /\ position.x < Len(space[1])
    /\ 0 <= position.y /\ position.y < Len(space)

find_visitable_neighbors(position, space) ==
    LET neighbors == << Position(position.x - 1, position.y),
                        Position(position.x + 1, position.y),
                        Position(position.x, position.y - 1),
                        Position(position.x, position.y + 1) >>
    IN  SelectSeq(neighbors,
                  LAMBDA n : is_within_memory(n, space) /\ space[n.y + 1][n.x + 1] = SAFE)

\* sweep: the verdict and the set `visited` it leaves behind; sweep_any is the
\* any(...) of lines 151-154, which stops at the first neighbor that succeeds
RECURSIVE sweep(_, _, _), sweep_any(_, _, _)
sweep(position, seen, space) ==
    IF position = Position(0, 0) THEN [found |-> TRUE, visited |-> seen]
    ELSE IF position \in seen THEN [found |-> FALSE, visited |-> seen]
    ELSE sweep_any(find_visitable_neighbors(position, space), seen \cup {position}, space)

sweep_any(neighbors, seen, space) ==
    IF neighbors = <<>> THEN [found |-> FALSE, visited |-> seen]
    ELSE LET first == sweep(Head(neighbors), seen, space)
         IN  IF first.found THEN first
             ELSE sweep_any(Tail(neighbors), first.visited, space)

reversed(s) == [i \in 1..Len(s) |-> s[Len(s) + 1 - i]]

\* main, lines 199-211: every byte is dropped, then the function is entered
\* (lines 138-140)
BlockingStart ==
    /\ blocking = "called"
    /\ memory_space' = drop_bytes(byte_positions, memory_space)
    /\ candidates' = reversed(byte_positions)
    /\ swept' = {}
    /\ blocking' = "loop"
    /\ UNCHANGED byte_positions
    /\ UNCHANGED <<vars16, vars15, vars6>>

\* one candidate of the loop of lines 156-160, or the raise of line 162; on a
\* return the returned candidate stays at the head of candidates
BlockingStep ==
    /\ blocking = "loop"
    /\ IF candidates = <<>>
       THEN /\ blocking' = "ValueError"
            /\ UNCHANGED <<memory_space, swept, candidates>>
       ELSE LET candidate == Head(candidates)
                space == WithByte(memory_space, candidate, SAFE)
                result == sweep(candidate, swept, space)
            IN  /\ memory_space' = space
                /\ swept' = result.visited
                /\ IF result.found
                   THEN blocking' = "returned" /\ UNCHANGED candidates
                   ELSE blocking' = "loop" /\ candidates' = Tail(candidates)
    /\ UNCHANGED byte_positions
    /\ UNCHANGED <<vars16, vars15, vars6>>

\* the sequences of at most n distinct members of S
RECURSIVE DistinctSeqs(_, _)
DistinctSeqs(S, n) ==
    IF n = 0 THEN {<<>>}
    ELSE LET shorter == DistinctSeqs(S, n - 1)
         IN  shorter \cup UNION { { Append(s, e) : e \in S \ { s[i] : i \in 1..Len(s) } } :
                                   s \in { t \in shorter : Len(t) = n - 1 } }

\* the drop orders: no byte falls on (0,0) or on the exit, none falls twice
ByteLists(width, height) ==
    DistinctSeqs({ Position(c, r) : c \in 0..(width - 1), r \in 0..(height - 1) }
                     \ {Position(0, 0), Position(width - 1, height - 1)}, MaxBytes)

InitBlocking ==
    /\ \E width \in 2..MaxSide, height \in 2..MaxSide :
          /\ memory_space = create_memory_space(width, height)
          /\ byte_positions \in ByteLists(width, height)
    /\ swept = {}
    /\ candidates = <<>>
    /\ blocking = "called"
    /\ Off16 /\ Off15 /\ Off6

NextBlocking == BlockingStart \/ BlockingStep

SpecBlocking == InitBlocking /\ [][NextBlocking]_vars

\* the cells joined to (0,0) by SAFE cells once the first n bytes have fallen
RECURSIVE Flood(_, _)
Flood(free, reached) ==
    LET more == { p \in free \ reached :
                    \E q \in reached : (p.x - q.x) * (p.x - q.x) + (p.y - q.y) * (p.y - q.y) = 1 }
    IN  IF more = {} THEN reached ELSE Flood(free, reached \cup more)

ExitReachableAfter(n) ==
    LET width == Len(memory_space[1])
        height == Len(memory_space)
        free == { Position(c, r) : c \in 0..(width - 1), r \in 0..(height - 1) }
                    \ { byte_positions[i] : i \in 1..n }
    IN  Position(width - 1, height - 1) \in Flood(free, {Position(0, 0)})

\* the drop after which the exit is first cut off, 0 when it never is
FirstBlockingDrop ==
    LET cut == { n \in 1..Len(byte_positions) : ~ExitReachableAfter(n) }
    IN  IF cut = {} THEN 0 ELSE CHOOSE n \in cut : \A k \in cut : n <= k

\* C30: when some byte cuts the exit off, find_blocking_byte_position returns the
\* first byte in drop order after whose fall no path of SAFE cells joins (0,0)
\* to the exit.
C30_FirstBlockingByte ==
    (blocking \in {"returned", "ValueError"} /\ FirstBlockingDrop > 0) =>
        /\ blocking = "returned"
        /\ Head(candidates) = byte_positions[FirstBlockingDrop]

====
